---- MODULE Spec2Model ----
(***************************************************************************)
(* Arduino_Route_Finder: the coordinate-keyed Graph class                  *)
(* (Archive/graph_old3.py), the ID-keyed Graph class and its searches       *)
(* (graph.py) and the Dijkstra variant least_cost_path (server_new.py).     *)
(*                                                                         *)
(* Two state machines share the variables:                                 *)
(*   SpecLCP   one call of least_cost_path on a graph given at Init.        *)
(*   SpecGraph the mutators of graph_old3.Graph called in any order.        *)
(*                                                                         *)
(* Python values.  A dict is a sequence of <<key, value>> pairs in          *)
(* insertion order (CPython 3.7+ keeps it, and min() over a dict returns    *)
(* the first minimal key in that order).  None is a value that equals no    *)
(* list.  float("inf") is Inf, with the arithmetic of inf written out.      *)
(* In graph_old3 a coordinate is the pair <<lat, lon>> and an int id n is   *)
(* the 1-tuple <<n>>, so that "type(v) is int" is Len(v) = 1 and the empty  *)
(* tuple () of id_to_coord is <<>>.                                         *)
(***************************************************************************)
EXTENDS Integers, Sequences, FiniteSets, TLC

\* ---- bounds ----
NumCoords == 2     \* coordinates the graph_old3 calls are made with
NumIds == 2        \* vertex ids the graph_old3 calls are made with
MaxListed == 2     \* neighbour entries in the whole graph_old3 graph
NumNodes == 3      \* vertices of the graph handed to least_cost_path
MaxEdges == 3      \* directed edges of that graph
MaxCost == 1       \* edge costs are 0..MaxCost
MaxWalk == 3       \* elements of a list handed to is_walk and is_path

\* ---- program constants ----
Inf == 1000000     \* float("inf")

Node == 1..NumNodes
Unknown == NumNodes + 1                      \* a vertex id that names no vertex
None == [j \in {0} |-> 0]
NoCall == [name |-> "", v |-> <<>>, v_id |-> <<>>, e |-> <<>>]

VARIABLES
    \* least_cost_path: arguments
    adj,            \* G._map_data[v][1]: neighbour list of each vertex
    cost,           \* the cost function, on ordered pairs
    start, dest,
    \* least_cost_path: locals
    pc,             \* "idle", "call", "loop", "walk_while", "walk_for", "done"
    component,      \* dict vertex -> predecessor
    costs,          \* dict vertex -> tentative cost
    visited,        \* set of vertices
    visited_edges,  \* list of pairs
    shortest_path,  \* list of vertices
    cheapest,
    previous,
    idx,            \* position of the for loop of the backward walk
    outcome,        \* "", "path", "None", "KeyError", "TypeError"
    result          \* the returned list when outcome = "path"

    \* graph_old3.Graph
VARIABLES
    map_data,       \* self._map_data: coordinate -> [neighbours] or [neighbours, id]
    id_index,       \* self._id_index: id -> coordinate
    op,             \* the call that has just ended, NoCall otherwise
    raised,         \* "" or the exception the last call ended with
    prev_map_data,  \* self._map_data when the last call was made
    prev_id_index   \* self._id_index when the last call was made

    \* graph.py: breadth_first_search, depth_first_search, count_components
VARIABLES
    sg,             \* g._map_data[v][1]: neighbour list of each vertex of g
    searching,      \* the function that was called, "" before the call
    s_start,        \* start
    s_pc,           \* "idle", "while", "returned", "TypeError"
    s_work,         \* stack / queue: deque of (node, prev)
    s_reached,      \* reached: dict node -> prev
    written,        \* every write reached[node] = prev so far, in order
    expanded,       \* every node whose neighbours were appended, in order
    pool,           \* queue of count_components: the vertices left
    rv

graphvars == <<map_data, id_index, op, raised, prev_map_data, prev_id_index>>

searchvars == <<sg, searching, s_start, s_pc, s_work, s_reached, written,
                expanded, pool, rv>>

lcpvars == <<adj, cost, start, dest, pc, component, costs, visited,
             visited_edges, shortest_path, cheapest, previous, idx,
             outcome, result>>

vars == <<lcpvars, graphvars, searchvars>>

\* the element of a one-element set; {f(x) : x \in {e}} computes e once
The(S) == CHOOSE x \in S : TRUE

\* ---- Python dict, as a sequence of <<key, value>> ----
DictKeys(d) == {d[j][1] : j \in 1..Len(d)}
DictHas(d, k) == \E j \in 1..Len(d) : d[j][1] = k
DictGet(d, k) == d[CHOOSE j \in 1..Len(d) : d[j][1] = k][2]
DictSet(d, k, v) ==
    IF DictHas(d, k)
    THEN [j \in 1..Len(d) |-> IF d[j][1] = k THEN <<k, v>> ELSE d[j]]
    ELSE Append(d, <<k, v>>)
DictPop(d, k) == SelectSeq(d, LAMBDA e : e[1] # k)

RECURSIVE SortedSeq(_)
SortedSeq(S) ==
    IF S = {} THEN <<>>
    ELSE LET m == CHOOSE x \in S : \A y \in S : x <= y
         IN  <<m>> \o SortedSeq(S \ {m})

\* ---- graph.py: Graph ----
neighbours(g, v) == IF v \notin DOMAIN g THEN None ELSE g[v]

\* ---- graph.py: depth_first_search (queue discipline) ----
RECURSIVE search_loop(_, _, _)
search_loop(g, queue, reached) ==
    IF queue = <<>> THEN reached
    ELSE LET node == Head(queue)[1]
             prev == Head(queue)[2]
             nb   == neighbours(g, node)
         IN  IF DictHas(reached, node)
             THEN The({search_loop(g, q, reached) : q \in {Tail(queue)}})
             ELSE The({search_loop(g, q, r) :
                         q \in {Tail(queue) \o
                                [j \in 1..Len(nb) |-> <<nb[j], node>>]},
                         r \in {Append(reached, <<node, prev>>)}})

\* a search that takes every vertex of the graph as reached
depth_first_search_whole_graph(g, s) ==
    <<<<s, s>>>> \o [j \in 1..Len(SortedSeq(DOMAIN g \ {s})) |->
                        <<SortedSeq(DOMAIN g \ {s})[j], s>>]

depth_first_search(g, s) == search_loop(g, <<<<s, s>>>>, <<>>)

\* iterating over None raises TypeError; only the start can be unknown,
\* every listed neighbour is a vertex (add_edge)
search_raises(g, s) == neighbours(g, s) = None

\* ---- server_new.py: least_cost_path ----
\* float arithmetic with inf: x + inf = inf; inf - x, x - inf and inf - inf
\* equal no finite cost
plus_edge_only(a, b) == a
plus(a, b) == IF a = Inf \/ b = Inf THEN Inf ELSE a + b
eq_delta(c, a, b) == a # Inf /\ b # Inf /\ c = a - b

\* lines 64-67: the relaxation for loop; None when a lookup raises KeyError
RECURSIVE relax(_, _, _, _, _, _)
relax(adjacents, j, cs, vis, ch, c) ==
    IF j > Len(adjacents) THEN cs
    ELSE LET node == adjacents[j]
         IN  IF node \in vis THEN relax(adjacents, j + 1, cs, vis, ch, c)
             ELSE IF ~DictHas(cs, node) \/ ~DictHas(cs, ch) THEN None
             ELSE LET new == plus(c[<<ch, node>>], DictGet(cs, ch))
                  IN  IF DictGet(cs, node) > new
                      THEN The({relax(adjacents, j + 1, d, vis, ch, c) :
                                  d \in {DictSet(cs, node, new)}})
                      ELSE relax(adjacents, j + 1, cs, vis, ch, c)

\* line 79: min(costs, key=costs.get), the first key of least value
min_key(cs) ==
    LET j == CHOOSE a \in 1..Len(cs) :
                 /\ \A b \in 1..Len(cs) : cs[a][2] <= cs[b][2]
                 /\ \A b \in 1..(a - 1) : cs[b][2] > cs[a][2]
    IN  cs[j][1]

\* lines 83-86: the edges of visited neighbours that match the cost delta
RECURSIVE came_from(_, _, _, _, _, _, _)
came_from(nb, j, vis, ch, cur, prev, c) ==
    IF j > Len(nb) THEN <<>>
    ELSE LET neighbour == nb[j]
             rest == came_from(nb, j + 1, vis, ch, cur, prev, c)
         IN  IF neighbour \in vis /\ eq_delta(c[<<neighbour, ch>>], cur, prev)
             THEN <<<<neighbour, ch>>>> \o rest
             ELSE rest

\* lines 69-86, after the relaxation left the tentative costs "relaxed"
after_relax(relaxed) ==
    LET vis  == visited \cup {cheapest}
        pop  == Len(relaxed) # 1
        prev == IF pop THEN DictGet(relaxed, cheapest) ELSE previous
    IN  The({[raised |-> "",
              component |-> DictPop(component, cheapest),
              costs |-> cs,
              visited |-> vis,
              previous |-> prev,
              cheapest |-> min_key(cs),
              edges |-> came_from(neighbours(adj, min_key(cs)), 1, vis,
                                  min_key(cs), DictGet(cs, min_key(cs)),
                                  prev, cost)] :
             cs \in {IF pop THEN DictPop(relaxed, cheapest) ELSE relaxed}})

\* lines 60-86: one pass of "while component" up to the destination test
loop_body ==
    The({IF relaxed = None \/ ~DictHas(component, cheapest)
         THEN [raised |-> "KeyError"]
         ELSE after_relax(relaxed) :
         relaxed \in {relax(neighbours(adj, cheapest), 1, costs, visited,
                            cheapest, cost)}})

\* list.remove: drops the first occurrence
RemoveFirst(s, e) ==
    LET k == CHOOSE a \in 1..Len(s) : s[a] = e /\ \A b \in 1..(a - 1) : s[b] # e
    IN  [j \in 1..(Len(s) - 1) |-> IF j < k THEN s[j] ELSE s[j + 1]]
InSeq(s, e) == \E j \in 1..Len(s) : s[j] = e
Reverse(s) == [j \in 1..Len(s) |-> s[Len(s) + 1 - j]]

Locals == <<component, costs, visited, visited_edges, shortest_path,
            cheapest, previous, idx>>
Args == <<adj, cost, start, dest>>

Return(o, r) == pc' = "done" /\ outcome' = o /\ result' = r

\* the shortcut hands back the still empty shortest_path
ReturnStart_empty ==
    /\ pc = "call" /\ start = dest
    /\ Return("path", shortest_path)
    /\ UNCHANGED <<graphvars, searchvars, Args, Locals>>

\* lines 32-33
ReturnStart ==
    /\ pc = "call" /\ start = dest
    /\ Return("path", <<start>>)
    /\ UNCHANGED <<graphvars, searchvars, Args, Locals>>

\* line 38 with an unknown start: depth_first_search iterates over None
SearchRaises ==
    /\ pc = "call" /\ start # dest
    /\ search_raises(adj, start)
    /\ Return("TypeError", <<>>)
    /\ UNCHANGED <<graphvars, searchvars, Args, Locals>>

\* lines 38-46
ReturnUnreachable ==
    /\ pc = "call" /\ start # dest
    /\ ~search_raises(adj, start)
    /\ \E comp \in {depth_first_search(adj, start)} :
           /\ ~DictHas(comp, dest)
           /\ component' = comp
    /\ Return("None", <<>>)
    /\ UNCHANGED <<graphvars, searchvars, Args,
                   costs, visited, visited_edges, shortest_path,
                   cheapest, previous, idx>>

\* lines 38-53
InitDijkstra ==
    /\ pc = "call" /\ start # dest
    /\ ~search_raises(adj, start)
    /\ \E comp \in {depth_first_search(adj, start)} :
           /\ DictHas(comp, dest)
           /\ component' = comp
           /\ costs' = DictSet([j \in 1..Len(comp) |-> <<comp[j][1], Inf>>],
                               start, 0)
    /\ cheapest' = start
    /\ pc' = "loop"
    /\ UNCHANGED <<graphvars, searchvars, Args,
                   visited, visited_edges, shortest_path, previous,
                   idx, outcome, result>>

\* lines 57-92
Iterate ==
    /\ pc = "loop" /\ component # <<>>
    /\ \E b \in {loop_body} :
           /\ b.raised = ""
           /\ component' = b.component
           /\ costs' = b.costs
           /\ visited' = b.visited
           /\ previous' = b.previous
           /\ cheapest' = b.cheapest
           /\ visited_edges' = visited_edges \o b.edges
           /\ IF b.cheapest = dest
              THEN /\ shortest_path' = Append(shortest_path, b.cheapest)
                   /\ pc' = "walk_while"
              ELSE /\ shortest_path' = shortest_path
                   /\ pc' = "loop"
    /\ UNCHANGED <<graphvars, searchvars, Args, idx, outcome, result>>

\* lines 66, 74: a lookup of a key that was popped
IterateKeyError ==
    /\ pc = "loop" /\ component # <<>>
    /\ loop_body.raised = "KeyError"
    /\ Return("KeyError", <<>>)
    /\ UNCHANGED <<graphvars, searchvars, Args, Locals>>

\* lines 57, 104
ReturnNone ==
    /\ pc = "loop" /\ component = <<>>
    /\ Return("None", <<>>)
    /\ UNCHANGED <<graphvars, searchvars, Args, Locals>>

\* line 93, edges left: enter the for loop of line 94
WalkWhile ==
    /\ pc = "walk_while" /\ visited_edges # <<>>
    /\ idx' = 1
    /\ pc' = "walk_for"
    /\ UNCHANGED <<graphvars, searchvars, Args,
                   component, costs, visited, visited_edges,
                   shortest_path, cheapest, previous, outcome, result>>

\* line 93, no edge left: back to "while component"
WalkEnd ==
    /\ pc = "walk_while" /\ visited_edges = <<>>
    /\ pc' = "loop"
    /\ UNCHANGED <<graphvars, searchvars, Args, Locals, outcome, result>>

\* lines 94-95: this neighbour has no settled edge, or the list is used up
WalkSkip ==
    /\ pc = "walk_for"
    /\ LET nb == neighbours(adj, cheapest)
       IN  IF idx > Len(nb)
           THEN pc' = "walk_while" /\ idx' = idx
           ELSE /\ ~InSeq(visited_edges, <<nb[idx], cheapest>>)
                /\ idx' = idx + 1
                /\ pc' = pc
    /\ UNCHANGED <<graphvars, searchvars, Args,
                   component, costs, visited, visited_edges,
                   shortest_path, cheapest, previous, outcome, result>>

\* lines 95-102: step back over a settled edge, not yet at start
WalkBack ==
    /\ pc = "walk_for"
    /\ LET nb == neighbours(adj, cheapest)
       IN  /\ idx <= Len(nb)
           /\ InSeq(visited_edges, <<nb[idx], cheapest>>)
           /\ nb[idx] # start
           /\ visited_edges' = RemoveFirst(visited_edges, <<nb[idx], cheapest>>)
           /\ shortest_path' = Append(shortest_path, nb[idx])
           /\ cheapest' = nb[idx]
    /\ pc' = "walk_while"
    /\ UNCHANGED <<graphvars, searchvars, Args,
                   component, costs, visited, previous, idx, outcome,
                   result>>

\* lines 95-101: the step back arrives at start
ReturnPath ==
    /\ pc = "walk_for"
    /\ LET nb == neighbours(adj, cheapest)
       IN  /\ idx <= Len(nb)
           /\ InSeq(visited_edges, <<nb[idx], cheapest>>)
           /\ nb[idx] = start
           /\ visited_edges' = RemoveFirst(visited_edges, <<nb[idx], cheapest>>)
           /\ shortest_path' = Reverse(Append(shortest_path, nb[idx]))
           /\ cheapest' = nb[idx]
           /\ Return("path", Reverse(Append(shortest_path, nb[idx])))
    /\ UNCHANGED <<graphvars, searchvars, Args,
                   component, costs, visited, previous, idx>>

\* ---- the graphs and cost functions handed to least_cost_path ----
Pairs == Node \X Node
\* up to MaxEdges directed edges between distinct vertices, none twice
EdgeSets == {E \in SUBSET {p \in Pairs : p[1] # p[2]} :
                Cardinality(E) <= MaxEdges}

\* the neighbour lists that add_edge builds from the edges E in ascending order
AdjOf(E) == [v \in Node |-> SortedSeq({u \in Node : <<v, u>> \in E})]

\* unordered pairs joined by an edge: cost is only ever evaluated on an edge
\* or on the reverse of an edge (lines 66, 85)
Links(E) == {{p[1], p[2]} : p \in E}
\* symmetric cost functions, as cost_distance is (cost.py line 33)
CostOf(E, w) == [p \in Pairs |-> IF {p[1], p[2]} \in Links(E)
                                 THEN w[{p[1], p[2]}] ELSE 0]

\* Graph(): lines 82-83 of graph_old3.py, before any vertex is added
InitGraphVars ==
    /\ map_data = <<>>
    /\ id_index = <<>>
    /\ op = NoCall
    /\ raised = ""
    /\ prev_map_data = <<>>
    /\ prev_id_index = <<>>

\* no search was called
InitSearchVars ==
    /\ sg = <<>>
    /\ searching = ""
    /\ s_start = Unknown
    /\ s_pc = "idle"
    /\ s_work = <<>>
    /\ s_reached = <<>>
    /\ written = <<>>
    /\ expanded = <<>>
    /\ pool = {}
    /\ rv = 0

\* no call is in progress
InitLCP ==
    /\ adj = <<>>
    /\ cost = <<>>
    /\ start = Unknown
    /\ dest = Unknown
    /\ pc = "idle"
    /\ component = <<>>
    /\ costs = <<>>
    /\ visited = {}
    /\ visited_edges = <<>>
    /\ shortest_path = <<>>
    /\ cheapest = Unknown
    /\ previous = 0
    /\ idx = 1
    /\ outcome = ""
    /\ result = <<>>
    /\ InitGraphVars
    /\ InitSearchVars

\* line 16: least_cost_path(G, start, dest, cost) is entered
Call ==
    /\ pc = "idle"
    /\ \E E \in EdgeSets :
         /\ adj' = AdjOf(E)
         /\ \E w \in [Links(E) -> 0..MaxCost] : cost' = CostOf(E, w)
    /\ start' \in Node \cup {Unknown}
    /\ dest' \in Node \cup {Unknown}
    /\ pc' = "call"
    /\ UNCHANGED <<graphvars, searchvars, Locals, outcome, result>>

\* the steps of a call that was entered
Step ==
    \/ ReturnStart
    \/ SearchRaises
    \/ ReturnUnreachable
    \/ InitDijkstra
    \/ Iterate
    \/ IterateKeyError
    \/ ReturnNone
    \/ WalkWhile
    \/ WalkEnd
    \/ WalkSkip
    \/ WalkBack
    \/ ReturnPath

NextLCP == Call \/ Step

SpecLCP == InitLCP /\ [][NextLCP]_vars

\* single-threaded and synchronous: a call that was entered keeps running
FairLCP ==
    /\ SpecLCP
    /\ WF_vars(ReturnStart) /\ WF_vars(SearchRaises)
    /\ WF_vars(ReturnUnreachable) /\ WF_vars(InitDijkstra)
    /\ WF_vars(Iterate) /\ WF_vars(IterateKeyError) /\ WF_vars(ReturnNone)
    /\ WF_vars(WalkWhile) /\ WF_vars(WalkEnd) /\ WF_vars(WalkSkip)
    /\ WF_vars(WalkBack) /\ WF_vars(ReturnPath)

\* ==== Archive/graph_old3.py: class Graph ====
Coord == {<<x, 0>> : x \in 1..NumCoords}     \* (lat, lon)
Ids == {<<n>> : n \in 1..NumIds}            \* an int id n is <<n>>
IsInt(v) == Len(v) = 1                       \* type(v) is int

\* dict operations on self._id_index
IndexPop(ix, k) == [j \in DOMAIN ix \ {k} |-> ix[j]]
IndexSet_dropped(ix, k, c) == ix
IndexSet(ix, k, c) == [j \in DOMAIN ix \cup {k} |-> IF j = k THEN c ELSE ix[j]]

\* lines 106-107
g3_id_to_coord(ix, v_id) == IF v_id \in DOMAIN ix THEN ix[v_id] ELSE <<>>

\* lines 124-126
g3_coord_to_id(md, coord) ==
    IF coord \notin DOMAIN md THEN None
    ELSE IF Len(md[coord]) = 1 THEN None
    ELSE md[coord][2]

g3_add_vertex_revoke_clears(md, ix, v) ==
    LET c   == <<v[1], v[2]>>
        md1 == IF c \notin DOMAIN md
               THEN [j \in DOMAIN md \cup {c} |->
                        IF j = c THEN <<<<>>>> ELSE md[j]]
               ELSE md
    IN  IF Len(v) # 3
        THEN [map_data |-> md1, id_index |-> ix, raised |-> ""]
        ELSE IF Len(md1[c]) = 1
        THEN LET md2 == [md1 EXCEPT ![c] = Append(@, v[3])]
                 md3 == IF v[3] \in DOMAIN ix
                        THEN [md2 EXCEPT ![ix[v[3]]] = <<<<>>>>]
                        ELSE md2
             IN  [map_data |-> md3, id_index |-> IndexSet(ix, v[3], c),
                  raised |-> ""]
        ELSE LET temp == md1[c][2]
                 md2  == [md1 EXCEPT ![c][2] = v[3]]
             IN  IF temp \notin DOMAIN ix
                 THEN [map_data |-> md2, id_index |-> ix,
                       raised |-> "KeyError"]
                 ELSE [map_data |-> md2,
                       id_index |-> IndexSet(IndexPop(ix, temp), v[3], c),
                       raised |-> ""]
\* lines 157-174; v is <<lat, lon>> or <<lat, lon, id>>
g3_add_vertex(md, ix, v) ==
    LET c   == <<v[1], v[2]>>
        md1 == IF c \notin DOMAIN md
               THEN [j \in DOMAIN md \cup {c} |->
                        IF j = c THEN <<<<>>>> ELSE md[j]]
               ELSE md
    IN  IF Len(v) # 3
        THEN [map_data |-> md1, id_index |-> ix, raised |-> ""]
        ELSE IF Len(md1[c]) = 1
        THEN LET md2 == [md1 EXCEPT ![c] = Append(@, v[3])]
                 md3 == IF v[3] \in DOMAIN ix
                        THEN [md2 EXCEPT ![ix[v[3]]] = <<@[1]>>]
                        ELSE md2
             IN  [map_data |-> md3, id_index |-> IndexSet(ix, v[3], c),
                  raised |-> ""]
        ELSE LET temp == md1[c][2]
                 md2  == [md1 EXCEPT ![c][2] = v[3]]
             IN  IF temp \notin DOMAIN ix
                 THEN [map_data |-> md2, id_index |-> ix,
                       raised |-> "KeyError"]
                 ELSE [map_data |-> md2,
                       id_index |-> IndexSet(IndexPop(ix, temp), v[3], c),
                       raised |-> ""]

\* line 197
g3_add_id(md, ix, v, v_id) ==
    IF v \in DOMAIN md
    THEN g3_add_vertex(md, ix, <<v[1], v[2], v_id>>)
    ELSE [map_data |-> md, id_index |-> ix, raised |-> ""]

g3_add_edge_dedup(md, ix, e) ==
    LET start_ == IF IsInt(e[1]) THEN g3_id_to_coord(ix, e[1]) ELSE e[1]
        end_   == IF IsInt(e[2]) THEN g3_id_to_coord(ix, e[2]) ELSE e[2]
    IN  IF /\ start_ \in DOMAIN md /\ end_ \in DOMAIN md
           /\ \A j \in 1..Len(md[start_][1]) : md[start_][1][j] # end_
        THEN [md EXCEPT ![start_][1] = Append(@, end_)]
        ELSE md
g3_add_edge_start_only(md, ix, e) ==
    LET start_ == IF IsInt(e[1]) THEN g3_id_to_coord(ix, e[1]) ELSE e[1]
        end_   == IF IsInt(e[2]) THEN g3_id_to_coord(ix, e[2]) ELSE e[2]
    IN  IF start_ \in DOMAIN md
        THEN [md EXCEPT ![start_][1] = Append(@, end_)]
        ELSE md
\* lines 220-229; e is <<a, b>>, each a coordinate or an id
g3_add_edge(md, ix, e) ==
    LET start_ == IF IsInt(e[1]) THEN g3_id_to_coord(ix, e[1]) ELSE e[1]
        end_   == IF IsInt(e[2]) THEN g3_id_to_coord(ix, e[2]) ELSE e[2]
    IN  IF start_ \in DOMAIN md /\ end_ \in DOMAIN md
        THEN [md EXCEPT ![start_][1] = Append(@, end_)]
        ELSE md

g3_neighbours_none_when_empty(md, ix, v) ==
    LET w == IF IsInt(v) THEN g3_id_to_coord(ix, v) ELSE v
    IN  IF w \notin DOMAIN md \/ md[w][1] = <<>> THEN None ELSE md[w][1]
\* lines 254-260
g3_neighbours(md, ix, v) ==
    LET w == IF IsInt(v) THEN g3_id_to_coord(ix, v) ELSE v
    IN  IF w \notin DOMAIN md THEN None ELSE md[w][1]

\* line 273
g3_vertices(md) == DOMAIN md

\* lines 286-291; the coordinates are gone through by latitude, the order
\* of a dict being the order its keys were inserted in
RECURSIVE g3_edges_from(_, _)
g3_edges_from(md, S) ==
    IF S = {} THEN <<>>
    ELSE LET coord == CHOOSE x \in S : \A y \in S : x[1] <= y[1]
         IN  [j \in 1..Len(md[coord][1]) |-> <<coord, md[coord][1][j]>>]
                 \o g3_edges_from(md, S \ {coord})
g3_edges(md) == g3_edges_from(md, DOMAIN md)

\* lines 326-328
g3_is_vertex(md, ix, v) ==
    LET w == IF IsInt(v) THEN g3_id_to_coord(ix, v) ELSE v
    IN  w \in DOMAIN md

\* the neighbour entries of the whole graph
RECURSIVE Listed(_, _)
Listed(md, S) ==
    IF S = {} THEN 0
    ELSE LET c == CHOOSE x \in S : TRUE
         IN  Len(md[c][1]) + Listed(md, S \ {c})

\* the arguments the calls are made with
VertexArgs == Coord \cup {<<c[1], c[2], i>> : c \in Coord, i \in Ids}
EndArgs == Coord \cup Ids

Record(call) ==
    /\ op' = call
    /\ prev_map_data' = map_data
    /\ prev_id_index' = id_index

\* add_vertex(v) returns
AddVertex(v) ==
    /\ op = NoCall
    /\ \E r \in {g3_add_vertex(map_data, id_index, v)} :
         /\ r.raised = ""
         /\ map_data' = r.map_data
         /\ id_index' = r.id_index
    /\ raised' = ""
    /\ Record([NoCall EXCEPT !.name = "add_vertex", !.v = v])
    /\ UNCHANGED <<lcpvars, searchvars>>

\* add_vertex(v) ends in line 173 with KeyError, line 172 done
AddVertexRaises(v) ==
    /\ op = NoCall
    /\ \E r \in {g3_add_vertex(map_data, id_index, v)} :
         /\ r.raised # ""
         /\ map_data' = r.map_data
         /\ id_index' = r.id_index
         /\ raised' = r.raised
    /\ Record([NoCall EXCEPT !.name = "add_vertex", !.v = v])
    /\ UNCHANGED <<lcpvars, searchvars>>

\* add_id(v, v_id) returns
AddId(v, v_id) ==
    /\ op = NoCall
    /\ \E r \in {g3_add_id(map_data, id_index, v, v_id)} :
         /\ r.raised = ""
         /\ map_data' = r.map_data
         /\ id_index' = r.id_index
    /\ raised' = ""
    /\ Record([NoCall EXCEPT !.name = "add_id", !.v = v, !.v_id = v_id])
    /\ UNCHANGED <<lcpvars, searchvars>>

\* add_id(v, v_id) ends with the KeyError of add_vertex
AddIdRaises(v, v_id) ==
    /\ op = NoCall
    /\ \E r \in {g3_add_id(map_data, id_index, v, v_id)} :
         /\ r.raised # ""
         /\ map_data' = r.map_data
         /\ id_index' = r.id_index
         /\ raised' = r.raised
    /\ Record([NoCall EXCEPT !.name = "add_id", !.v = v, !.v_id = v_id])
    /\ UNCHANGED <<lcpvars, searchvars>>

\* add_edge(e); the graph is kept to MaxListed neighbour entries
AddEdge(e) ==
    /\ op = NoCall
    /\ \E md \in {g3_add_edge(map_data, id_index, e)} :
         /\ Listed(md, DOMAIN md) <= MaxListed
         /\ map_data' = md
    /\ id_index' = id_index
    /\ raised' = ""
    /\ Record([NoCall EXCEPT !.name = "add_edge", !.e = e])
    /\ UNCHANGED <<lcpvars, searchvars>>

\* the call is over: the caller drops its arguments and what it caught
CallerGoesOn ==
    /\ op # NoCall
    /\ op' = NoCall
    /\ raised' = ""
    /\ prev_map_data' = map_data
    /\ prev_id_index' = id_index
    /\ UNCHANGED <<map_data, id_index, lcpvars, searchvars>>

InitGraph ==
    /\ InitGraphVars
    /\ InitSearchVars
    /\ adj = <<>>
    /\ cost = <<>>
    /\ start = Unknown
    /\ dest = Unknown
    /\ pc = "idle"
    /\ component = <<>>
    /\ costs = <<>>
    /\ visited = {}
    /\ visited_edges = <<>>
    /\ shortest_path = <<>>
    /\ cheapest = Unknown
    /\ previous = 0
    /\ idx = 1
    /\ outcome = ""
    /\ result = <<>>

NextGraph ==
    \/ \E v \in VertexArgs : AddVertex(v)
    \/ \E v \in VertexArgs : AddVertexRaises(v)
    \/ \E v \in Coord, v_id \in Ids : AddId(v, v_id)
    \/ \E v \in Coord, v_id \in Ids : AddIdRaises(v, v_id)
    \/ \E e \in EndArgs \X EndArgs : AddEdge(e)
    \/ CallerGoesOn

SpecGraph == InitGraph /\ [][NextGraph]_vars

\* ---- what the claims speak of, defined apart from the code ----
\* the vertices that directed edges lead to from the set S
RECURSIVE ReachSet(_, _)
ReachSet(g, S) ==
    LET T == S \cup {u \in DOMAIN g : \E v \in S : InSeq(g[v], u)}
    IN  IF T = S THEN S ELSE ReachSet(g, T)
Reachable(s, d) == s \in DOMAIN adj /\ d \in ReachSet(adj, {s})

IsEdge(u, v) == u \in DOMAIN adj /\ InSeq(adj[u], v)
SimplePaths(s, d) ==
    {p \in UNION {[1..n -> Node] : n \in 1..NumNodes} :
        /\ p[1] = s /\ p[Len(p)] = d
        /\ \A a, b \in 1..Len(p) : p[a] = p[b] => a = b
        /\ \A a \in 1..(Len(p) - 1) : IsEdge(p[a], p[a + 1])}
RECURSIVE PathCost(_)
PathCost(p) ==
    IF Len(p) < 2 THEN 0 ELSE cost[<<p[1], p[2]>>] + PathCost(Tail(p))

Called == pc # "idle"
Returned == pc = "done"
ProperCall == start \in Node /\ dest \in Node /\ start # dest

\* C1: whenever least_cost_path returns a path for start # dest, both
\* vertices of the graph, the sum of the costs of its consecutive pairs is
\* the minimum total cost over all simple directed paths from start to dest.
C1_PathCostIsMinimal ==
    (Returned /\ ProperCall /\ outcome = "path") =>
        /\ \E q \in SimplePaths(start, dest) : PathCost(q) = PathCost(result)
        /\ \A q \in SimplePaths(start, dest) : PathCost(result) <= PathCost(q)

\* C2: when dest is reachable from start by directed edges (start # dest),
\* least_cost_path returns a path from start to dest, never None.
C2_ReachableGivesPath ==
    (Returned /\ ProperCall /\ Reachable(start, dest)) =>
        /\ outcome = "path"
        /\ result[1] = start
        /\ result[Len(result)] = dest

\* C3: when start is a vertex, dest # start and dest is not reachable from
\* start, least_cost_path returns None, raises nothing and never starts the
\* relaxation loop (no tentative cost is set up, no vertex is visited).
C3_UnreachableReturnsNone ==
    (Called /\ start \in Node /\ start # dest /\ ~Reachable(start, dest)) =>
        /\ pc \in {"call", "done"}
        /\ costs = <<>> /\ visited = {}
        /\ Returned => outcome = "None"

\* C3 witness: the call has returned for an isolated destination vertex.
C3_Witness ==
    /\ Returned /\ ProperCall /\ outcome = "None"
    /\ adj[dest] = <<>>
    /\ \A v \in Node : ~IsEdge(v, dest)
    /\ adj[start] # <<>>
    /\ costs = <<>>

\* C4: least_cost_path(G, s, s, cost) returns exactly [s], at once: neither
\* the reachability search nor the relaxation loop runs.
C4_SameVertexReturnsItself ==
    (Called /\ start = dest) =>
        /\ pc \in {"call", "done"}
        /\ component = <<>> /\ costs = <<>> /\ visited = {}
        /\ Returned => (outcome = "path" /\ result = <<start>>)

\* C4 witness: the call has returned [s] for a vertex s that has neighbours.
C4_Witness ==
    /\ Returned /\ start = dest /\ start \in Node
    /\ adj[start] # <<>>
    /\ result = <<start>>

\* C5: least_cost_path terminates on every finite graph with non-negative
\* costs and start, dest in the graph: the call eventually returns.
C5_Terminates == (pc = "call" /\ start \in Node /\ dest \in Node) ~> Returned

\* ---- graph_old3.py: claims ----

\* the call that has just ended
AddVertexWithId == op.name = "add_vertex" /\ Len(op.v) = 3
BindsId == AddVertexWithId \/ (op.name = "add_id" /\ op.v \in DOMAIN prev_map_data)
CalledCoord == <<op.v[1], op.v[2]>>
CalledId == IF op.name = "add_id" THEN op.v_id ELSE op.v[3]
\* an endpoint of add_edge as lines 223-226 resolve it, in the state before
Resolved(a) == IF IsInt(a) THEN g3_id_to_coord(prev_id_index, a) ELSE a
EndpointUnresolved ==
    \/ Resolved(op.e[1]) \notin DOMAIN prev_map_data
    \/ Resolved(op.e[2]) \notin DOMAIN prev_map_data

\* C6: in every reachable graph state and for every query u, a coordinate or
\* an identifier, neighbours(u) is None exactly when is_vertex(u) is false; a
\* vertex without outgoing edges gives the empty list, which is not None.
C6_NeighboursNoneIffNotVertex ==
    /\ \A u \in EndArgs :
         (g3_neighbours(map_data, id_index, u) = None)
             <=> ~g3_is_vertex(map_data, id_index, u)
    /\ \A c \in DOMAIN map_data :
         map_data[c][1] = <<>> =>
             /\ g3_neighbours(map_data, id_index, c) = <<>>
             /\ g3_neighbours(map_data, id_index, c) # None
C6_Witness ==
    /\ \E c \in Coord : ~g3_is_vertex(map_data, id_index, c)
    /\ \E i \in Ids : ~g3_is_vertex(map_data, id_index, i)
    /\ \E i \in Ids : /\ g3_is_vertex(map_data, id_index, i)
                      /\ g3_neighbours(map_data, id_index, i) = <<>>

\* C7: immediately after add_vertex(c, id) returns, whatever c and id were
\* before, id_to_coord(id) = c and coord_to_id(c) = id.
C7_AddVertexBindsBothWays ==
    (AddVertexWithId /\ raised = "") =>
        /\ g3_id_to_coord(id_index, CalledId) = CalledCoord
        /\ g3_coord_to_id(map_data, CalledCoord) = CalledId
C7_Witness ==
    /\ AddVertexWithId /\ raised = ""
    /\ CalledCoord \in DOMAIN prev_map_data
    /\ g3_coord_to_id(prev_map_data, CalledCoord) \in Ids \ {CalledId}
    /\ g3_id_to_coord(prev_id_index, CalledId) \in Coord \ {CalledCoord}
    /\ g3_id_to_coord(id_index, CalledId) = CalledCoord

\* C8: if id is bound to c1 and add_vertex(c2, id) or add_id(c2, id) is then
\* called with c2 # c1, coord_to_id(c1) is None afterwards, whether c2 was
\* new, had no identifier or had a different identifier.
C8_IdRevokedFromPreviousOwner ==
    \A c1 \in Coord :
        ( /\ BindsId /\ raised = ""
          /\ c1 # CalledCoord
          /\ g3_id_to_coord(prev_id_index, CalledId) = c1
          /\ g3_coord_to_id(prev_map_data, c1) = CalledId )
        => g3_coord_to_id(map_data, c1) = None

\* C9: in every reachable state id_to_coord and coord_to_id are mutual
\* inverses, and no identifier is reported for two different coordinates.
C9_MappingsMutualInverses ==
    /\ \A i \in Ids :
         g3_id_to_coord(id_index, i) # <<>> =>
             g3_coord_to_id(map_data, g3_id_to_coord(id_index, i)) = i
    /\ \A c \in Coord :
         g3_coord_to_id(map_data, c) # None =>
             g3_id_to_coord(id_index, g3_coord_to_id(map_data, c)) = c
    /\ \A c1 \in Coord, c2 \in Coord :
         ( /\ g3_coord_to_id(map_data, c1) # None
           /\ g3_coord_to_id(map_data, c1) = g3_coord_to_id(map_data, c2) )
         => c1 = c2

\* C10: add_edge((a, b)) with an endpoint that is an unknown coordinate or an
\* identifier resolving to no coordinate raises nothing and leaves the vertex
\* set, every neighbour list and both identifier mappings as they were; so
\* do the add_edge calls of a construction, which follow its add_vertex calls.
C10_AddEdgeUnresolvedIsNoOp ==
    (op.name = "add_edge" /\ EndpointUnresolved) =>
        /\ raised = ""
        /\ g3_vertices(map_data) = g3_vertices(prev_map_data)
        /\ map_data = prev_map_data
        /\ id_index = prev_id_index
C10_Witness ==
    /\ op.name = "add_edge"
    /\ Resolved(op.e[1]) \in DOMAIN prev_map_data
    /\ IsInt(op.e[2])
    /\ Resolved(op.e[2]) = <<>>
    /\ \E c \in DOMAIN map_data : map_data[c][1] # <<>>
    /\ map_data = prev_map_data

\* how often x occurs in the sequence s
Count(s, x) == Cardinality({j \in 1..Len(s) : s[j] = x})

\* C11: add_edge((a, b)) with both endpoints resolving to vertices appends one
\* occurrence of b's coordinate to the end of a's neighbour sequence, also
\* when b is a neighbour of a already, and changes nothing else; neighbours(a)
\* holds b as often as edges() lists (a, b), once more after each such call.
C11_AddEdgeAppendsOne ==
    (op.name = "add_edge" /\ ~EndpointUnresolved) =>
         \E a \in {Resolved(op.e[1])}, b \in {Resolved(op.e[2])} :
            /\ raised = ""
            /\ \E listed \in {g3_edges(map_data)} :
                 \A u \in DOMAIN map_data, v \in Coord :
                    Count(g3_neighbours(map_data, id_index, u), v)
                        = Count(listed, <<u, v>>)
            /\ g3_neighbours(map_data, id_index, a)
                   = Append(g3_neighbours(prev_map_data, prev_id_index, a), b)
            /\ Count(g3_neighbours(map_data, id_index, op.e[1]), b)
                   = Count(prev_map_data[a][1], b) + 1
            /\ Count(g3_edges(map_data), <<a, b>>)
                   = Count(g3_edges(prev_map_data), <<a, b>>) + 1
            /\ Len(g3_edges(map_data)) = Len(g3_edges(prev_map_data)) + 1
            /\ g3_vertices(map_data) = g3_vertices(prev_map_data)
            /\ [map_data EXCEPT ![a][1] = prev_map_data[a][1]] = prev_map_data
            /\ id_index = prev_id_index
\* C11 witness: the second parallel edge has been added, one endpoint by id.
C11_Witness ==
    /\ op.name = "add_edge" /\ ~EndpointUnresolved
    /\ IsInt(op.e[1]) \/ IsInt(op.e[2])
    /\ Resolved(op.e[1]) # Resolved(op.e[2])
    /\ Count(prev_map_data[Resolved(op.e[1])][1], Resolved(op.e[2])) = 1
    /\ Count(g3_edges(map_data), <<Resolved(op.e[1]), Resolved(op.e[2])>>) = 2

\* C12: a second add_vertex(v) with the same argument leaves the vertex set,
\* the neighbour lists and the identifier mappings as they were after the
\* first call; re-adding a coordinate without an identifier keeps the
\* identifier it has.
C12_AddVertexIdempotent ==
    op.name = "add_vertex" =>
        \E again \in {g3_add_vertex(map_data, id_index, op.v)} :
            /\ again.raised = ""
            /\ g3_vertices(again.map_data) = g3_vertices(map_data)
            /\ again.map_data = map_data
            /\ again.id_index = id_index

\* ---- graph.py: breadth_first_search, depth_first_search ----
Searches == {"breadth_first_search", "depth_first_search"}

\* up to MaxEdges edges between vertices of V, in the order they are added
EdgeLists(V) == UNION {[1..k -> V \X V] : k \in 0..MaxEdges}
\* Graph(V, E), lines 36-39: add_edge (line 124) appends e[1] to the
\* neighbour list of e[0]
GraphOf(V, E) ==
    [v \in V |-> The({[j \in 1..Len(own) |-> own[j][2]] :
                        own \in {SelectSeq(E, LAMBDA e : e[1] = v)}})]

\* lines 307-309, 353-354: the search is entered
SearchCall ==
    /\ s_pc = "idle"
    /\ searching' \in Searches
    /\ \E V \in SUBSET Node : \E E \in EdgeLists(V) : sg' = GraphOf(V, E)
    /\ s_start' \in Node
    /\ s_reached' = <<>>
    /\ s_work' = <<<<s_start', s_start'>>>>
    /\ s_pc' = "while"
    /\ UNCHANGED <<written, expanded, pool, rv, lcpvars, graphvars>>

Taken_from_the_right ==
    <<s_work[Len(s_work)], SubSeq(s_work, 1, Len(s_work) - 1)>>
\* line 315 stack.pop(), line 360 queue.popleft(): the pair taken and the
\* deque that is left
Taken ==
    IF searching = "breadth_first_search"
    THEN <<s_work[Len(s_work)], SubSeq(s_work, 1, Len(s_work) - 1)>>
    ELSE <<Head(s_work), Tail(s_work)>>
Popped == Taken[1]
Rest == Taken[2]
InSearchLoop == s_pc = "while" /\ searching \in Searches /\ s_work # <<>>

SearchSkip_visits_again ==
    /\ InSearchLoop
    /\ DictHas(s_reached, Popped[1])
    /\ s_reached' = DictSet(s_reached, Popped[1], Popped[2])
    /\ written' = Append(written, Popped)
    /\ expanded' = Append(expanded, Popped[1])
    /\ s_work' = Rest \o [j \in 1..Len(sg[Popped[1]]) |->
                              <<sg[Popped[1]][j], Popped[1]>>]
    /\ UNCHANGED <<sg, searching, s_start, s_pc, pool, rv, lcpvars,
                   graphvars>>

\* lines 312-318, 357-364: the node taken is in reached already
SearchSkip ==
    /\ InSearchLoop
    /\ DictHas(s_reached, Popped[1])
    /\ s_work' = Rest
    /\ UNCHANGED <<sg, searching, s_start, s_pc, s_reached, written,
                   expanded, pool, rv, lcpvars, graphvars>>

SearchVisit_start_as_prev ==
    /\ InSearchLoop
    /\ ~DictHas(s_reached, Popped[1])
    /\ \E node \in {Popped[1]}, nb \in {neighbours(sg, Popped[1])} :
         /\ nb # None
         /\ s_reached' = DictSet(s_reached, node, s_start)
         /\ written' = Append(written, <<node, s_start>>)
         /\ expanded' = Append(expanded, node)
         /\ s_work' = Rest \o [j \in 1..Len(nb) |-> <<nb[j], node>>]
    /\ UNCHANGED <<sg, searching, s_start, s_pc, pool, rv, lcpvars,
                   graphvars>>

\* lines 312-325, 357-371: the node taken is new; it gets its predecessor
\* and its neighbours are appended
SearchVisit ==
    /\ InSearchLoop
    /\ ~DictHas(s_reached, Popped[1])
    /\ \E node \in {Popped[1]}, nb \in {neighbours(sg, Popped[1])} :
         /\ nb # None
         /\ s_reached' = DictSet(s_reached, node, Popped[2])
         /\ written' = Append(written, Popped)
         /\ expanded' = Append(expanded, node)
         /\ s_work' = Rest \o [j \in 1..Len(nb) |-> <<nb[j], node>>]
    /\ UNCHANGED <<sg, searching, s_start, s_pc, pool, rv, lcpvars,
                   graphvars>>

\* lines 319, 324 and 365, 370: the node taken is no vertex; it gets its
\* predecessor, then the for loop over None raises TypeError
SearchVisitRaises ==
    /\ InSearchLoop
    /\ ~DictHas(s_reached, Popped[1])
    /\ neighbours(sg, Popped[1]) = None
    /\ s_reached' = DictSet(s_reached, Popped[1], Popped[2])
    /\ written' = Append(written, Popped)
    /\ s_work' = Rest
    /\ s_pc' = "TypeError"
    /\ UNCHANGED <<sg, searching, s_start, expanded, pool, rv, lcpvars,
                   graphvars>>

\* lines 312, 326 and 357, 372
SearchReturn ==
    /\ s_pc = "while" /\ searching \in Searches /\ s_work = <<>>
    /\ s_pc' = "returned"
    /\ UNCHANGED <<sg, searching, s_start, s_work, s_reached, written,
                   expanded, pool, rv, lcpvars, graphvars>>

\* ---- graph.py: count_components ----
\* lines 398-399; the order of deque(g.vertices()) is the order of a set
CountCall ==
    /\ s_pc = "idle"
    /\ searching' = "count_components"
    /\ \E V \in SUBSET Node : \E E \in EdgeLists(V) : sg' = GraphOf(V, E)
    /\ pool' = DOMAIN sg'
    /\ rv' = 0
    /\ s_pc' = "while"
    /\ UNCHANGED <<s_start, s_work, s_reached, written, expanded, lcpvars,
                   graphvars>>

CountStep_one_vertex ==
    /\ s_pc = "while" /\ searching = "count_components" /\ pool # {}
    /\ \E v \in pool : s_start' = v /\ pool' = pool \ {v}
    /\ rv' = rv + 1
    /\ UNCHANGED <<sg, searching, s_pc, s_work, s_reached, written,
                   expanded, lcpvars, graphvars>>

\* lines 404-415: queue.popleft() takes the first vertex of an arbitrary
\* order, that is any vertex left; what the search reaches is removed
CountStep ==
    /\ s_pc = "while" /\ searching = "count_components" /\ pool # {}
    /\ \E v \in pool :
         /\ s_start' = v
         /\ \E r \in {depth_first_search(sg, v)} :
              pool' = (pool \ {v}) \ DictKeys(r)
    /\ rv' = rv + 1
    /\ UNCHANGED <<sg, searching, s_pc, s_work, s_reached, written,
                   expanded, lcpvars, graphvars>>

\* lines 404, 416
CountReturn ==
    /\ s_pc = "while" /\ searching = "count_components" /\ pool = {}
    /\ s_pc' = "returned"
    /\ UNCHANGED <<sg, searching, s_start, s_work, s_reached, written,
                   expanded, pool, rv, lcpvars, graphvars>>

\* nothing was called yet
InitSearch == InitLCP

NextSearch ==
    \/ SearchCall
    \/ SearchSkip
    \/ SearchVisit
    \/ SearchVisitRaises
    \/ SearchReturn
    \/ CountCall
    \/ CountStep
    \/ CountReturn

SpecSearch == InitSearch /\ [][NextSearch]_vars

\* single-threaded and synchronous: a search that was entered keeps running
FairSearch ==
    /\ SpecSearch
    /\ WF_vars(SearchSkip) /\ WF_vars(SearchVisit) /\ WF_vars(SearchVisitRaises)
    /\ WF_vars(SearchReturn) /\ WF_vars(CountStep) /\ WF_vars(CountReturn)

\* ---- graph.py searches: claims ----

\* the least number of edges of a directed walk from the set S, n edges
\* away from the start, to v; -1 when there is none
RECURSIVE MinEdges(_, _, _, _)
MinEdges(g, S, v, n) ==
    IF v \in S THEN n
    ELSE LET T == S \cup {u \in DOMAIN g : \E w \in S : InSeq(g[w], u)}
         IN  IF T = S THEN -1 ELSE MinEdges(g, T, v, n + 1)
\* the number of steps from v back to s along the predecessors in r; -1
\* when s is not met within fuel steps
RECURSIVE PredSteps(_, _, _, _)
PredSteps(r, v, s, fuel) ==
    IF v = s THEN 0
    ELSE IF fuel = 0 \/ ~DictHas(r, v) THEN -1
    ELSE LET k == PredSteps(r, DictGet(r, v), s, fuel - 1)
         IN  IF k < 0 THEN -1 ELSE k + 1
SearchReturned(kinds) ==
    s_pc = "returned" /\ searching \in kinds /\ s_start \in DOMAIN sg
NoRepeat(seq) == \A i, j \in 1..Len(seq) : seq[i] = seq[j] => i = j
WrittenNodes == [j \in 1..Len(written) |-> written[j][1]]

\* C13: for every graph and start vertex, the map returned by the queue
\* search (depth_first_search) leads from every reached vertex v back to
\* start in as many steps as the shortest directed walk from start to v has
\* edges.
C13_QueueSearchGivesFewestEdges ==
    SearchReturned({"depth_first_search"}) =>
        \A v \in DictKeys(s_reached) :
            PredSteps(s_reached, v, s_start, NumNodes)
                = MinEdges(sg, {s_start}, v, 0)
\* C13 witness: a vertex was reached that has a walk of one edge and a walk
\* of two edges from start.
C13_Witness ==
    /\ SearchReturned({"depth_first_search"})
    /\ \E u, v \in DictKeys(s_reached) :
         /\ u # v /\ u # s_start /\ v # s_start
         /\ InSeq(sg[s_start], u) /\ InSeq(sg[u], v) /\ InSeq(sg[s_start], v)
         /\ sg[s_start][1] = u

\* C14: both searches return a map whose keys are exactly the vertices
\* reachable from start by directed edges, start mapped to itself and every
\* other key v mapped to a key p with (p, v) an edge.
C14_SearchReturnsReachableSet ==
    SearchReturned(Searches) =>
        /\ DictKeys(s_reached) = ReachSet(sg, {s_start})
        /\ DictGet(s_reached, s_start) = s_start
        /\ \A v \in DictKeys(s_reached) \ {s_start} :
              /\ DictGet(s_reached, v) \in DictKeys(s_reached)
              /\ InSeq(sg[DictGet(s_reached, v)], v)
\* C14 witness: the stack search has returned; it reached a second vertex
\* and left unreached a vertex that has an edge into a reached one.
C14_Witness ==
    /\ SearchReturned({"breadth_first_search"})
    /\ Cardinality(DictKeys(s_reached)) = 2
    /\ \E w \in DOMAIN sg \ DictKeys(s_reached), v \in DictKeys(s_reached) :
          InSeq(sg[w], v)

\* C15: during either search the predecessor of a vertex is written once and
\* never overwritten and its neighbours are expanded once, whatever edges,
\* parallel edges, self-loops or cycles lead to it; the search finishes with
\* every reachable vertex present once.
C15_EachVertexVisitedOnce ==
    /\ [](searching \in Searches =>
            /\ NoRepeat(WrittenNodes)
            /\ NoRepeat(expanded))
    /\ [][\A k \in DictKeys(s_reached) :
             /\ DictHas(s_reached', k)
             /\ DictGet(s_reached', k) = DictGet(s_reached, k)]_vars
    /\ [](SearchReturned(Searches) =>
            /\ {written[j][1] : j \in 1..Len(written)}
                   = ReachSet(sg, {s_start})
            /\ {expanded[j] : j \in 1..Len(expanded)}
                   = ReachSet(sg, {s_start})
            /\ Len(s_reached) = Cardinality(ReachSet(sg, {s_start})))
    /\ (s_pc = "while" /\ searching \in Searches /\ s_start \in DOMAIN sg)
           ~> (s_pc = "returned")
\* C15 witness: a search has returned on the cycle 1 -> 2 -> 3 -> 1, or on a
\* graph with a self-loop and a parallel edge, each vertex written once.
C15_Witness ==
    /\ SearchReturned(Searches)
    /\ Len(written) = Cardinality(DOMAIN sg)
    /\ \/ \A v \in DOMAIN sg : \E u \in DOMAIN sg \ {v} : InSeq(sg[v], u)
             /\ Cardinality(DOMAIN sg) = NumNodes
       \/ \E u, v \in DOMAIN sg :
             /\ u # v /\ Count(sg[u], v) = 2 /\ InSeq(sg[v], v)

\* C16: a search called with a start that is no vertex of the graph returns
\* the empty map or the single entry start -> start, and raises nothing.
C16_UnknownStartReturns ==
    ( /\ searching \in Searches
      /\ s_start \notin DOMAIN sg
      /\ s_pc \in {"returned", "TypeError"} )
    => /\ s_pc = "returned"
       /\ \/ s_reached = <<>>
          \/ s_reached = <<<<s_start, s_start>>>>

\* the vertices that v reaches and that reach v
Mutual(g, v) ==
    {u \in ReachSet(g, {v}) : v \in ReachSet(g, {u})}
Symmetric(g) == \A u, v \in DOMAIN g : InSeq(g[u], v) => InSeq(g[v], u)

\* C17: on a graph in which every edge has its reverse edge, count_components
\* returns the number of maximal sets of mutually reachable vertices, in
\* whatever order the vertices are taken; 0 for the empty graph, and an
\* isolated vertex counts as one.
C17_CountsComponents ==
    (s_pc = "returned" /\ searching = "count_components" /\ Symmetric(sg))
    => rv = Cardinality({Mutual(sg, v) : v \in DOMAIN sg})
\* C17 witness: two vertices joined both ways and an isolated one gave 2.
C17_Witness ==
    /\ s_pc = "returned" /\ searching = "count_components" /\ Symmetric(sg)
    /\ Cardinality(DOMAIN sg) = 3
    /\ \E u, v \in DOMAIN sg : u # v /\ InSeq(sg[u], v)
    /\ \E v \in DOMAIN sg : sg[v] = <<>>
    /\ rv = 2

\* ---- server_new.py: claims on the walk and on the relaxation loop ----

\* the least total cost of a directed path from start to each vertex, Inf
\* when there is none: n rounds of relaxing every edge
RECURSIVE Settle(_, _)
Settle(d, n) ==
    IF n = 0 THEN d
    ELSE Settle([v \in Node |->
                    LET via == {d[u] + cost[<<u, v>>] :
                                  u \in {w \in Node : IsEdge(w, v) /\ d[w] # Inf}}
                    IN  CHOOSE x \in via \cup {d[v]} :
                            \A y \in via \cup {d[v]} : x <= y],
                n - 1)
LeastCost == Settle([u \in Node |-> IF u = start THEN 0 ELSE Inf], NumNodes)
InRelaxation == pc \in {"loop", "walk_while", "walk_for"}

\* C18: every list least_cost_path returns for start # dest is a directed
\* walk from start to dest: it begins with start, ends with dest, and each
\* consecutive pair is an edge of the graph.
C18_ReturnedPathIsWalk ==
    (Returned /\ start # dest /\ outcome = "path") =>
        /\ result[1] = start
        /\ result[Len(result)] = dest
        /\ \A j \in 1..(Len(result) - 1) : IsEdge(result[j], result[j + 1])

\* C19: with start and dest vertices of the graph, least_cost_path ends by
\* returning a path or None; no lookup of component or costs raises KeyError.
C19_NoMissingKey ==
    (Returned /\ start \in Node /\ dest \in Node) =>
        outcome \in {"path", "None"}

\* C20: in the relaxation loop the tentative cost of the current vertex is
\* finite and is the least total cost of a directed path from start to it;
\* no tentative cost is ever below that least cost, and none ever increases.
C20_TentativeCosts ==
    /\ []((InRelaxation /\ DictHas(costs, cheapest)) =>
            /\ DictGet(costs, cheapest) # Inf
            /\ DictGet(costs, cheapest) = LeastCost[cheapest])
    /\ [](costs # <<>> =>
            \E least \in {LeastCost} :
                \A k \in DictKeys(costs) : DictGet(costs, k) >= least[k])
    /\ [][\A k \in DictKeys(costs) \cap DictKeys(costs') :
             DictGet(costs', k) <= DictGet(costs, k)]_vars
\* C20 witness: the current vertex has an edge from start that costs more
\* than the tentative cost it was selected with.
C20_Witness ==
    /\ InRelaxation /\ DictHas(costs, cheapest)
    /\ cheapest # start
    /\ IsEdge(start, cheapest)
    /\ cost[<<start, cheapest>>] > DictGet(costs, cheapest)
    /\ visited # {}

\* line 79 has just chosen the current vertex: one pass of "while component"
\* ran up to the destination test
Selects == pc = "loop" /\ pc' \in {"loop", "walk_while"}

\* line 57 is about to start a further pass of the loop body
IterationBegins == pc = "loop" /\ component # <<>>

\* C21: the vertex line 79 selects as current has not been marked visited, in
\* every pass including the one that leaves a single tentative cost, and
\* cheapest names no visited vertex when a pass of "while component" begins.
C21_CurrentSelectedOnce ==
    /\ [][Selects => cheapest' \notin visited']_vars
    /\ [](IterationBegins => cheapest \notin visited)

\* lines 83-86: the edges this pass appended to visited_edges
Recorded ==
    SubSeq(visited_edges', Len(visited_edges) + 1, Len(visited_edges'))

\* C22: each edge (p, c) a pass appends to visited_edges ends at the vertex c
\* just selected, starts at a visited vertex p, is a directed edge p->c of the
\* graph and reconciles the costs, least cost of p + cost((p, c)) = tentative
\* cost of c; a selected vertex other than start gets at least one such edge.
C22_RecordedEdgesAreIncoming ==
    [][Selects =>
         /\ \A j \in 1..Len(Recorded) :
              \E p \in {Recorded[j][1]}, c \in {Recorded[j][2]} :
                 /\ c = cheapest'
                 /\ p \in visited'
                 /\ IsEdge(p, c)
                 /\ LeastCost[p] + cost[<<p, c>>] = DictGet(costs', c)
         /\ cheapest' # start => Recorded # <<>>]_vars

\* ---- graph_old3.py: is_edge, is_walk, is_path ----
g3_is_edge_either_way(md, ix, e) ==
    LET start_ == IF IsInt(e[1]) THEN g3_id_to_coord(ix, e[1]) ELSE e[1]
        end_   == IF IsInt(e[2]) THEN g3_id_to_coord(ix, e[2]) ELSE e[2]
    IN  \/ g3_is_vertex(md, ix, start_) /\ InSeq(md[start_][1], end_)
        \/ g3_is_vertex(md, ix, end_) /\ InSeq(md[end_][1], start_)
\* lines 348-356
g3_is_edge(md, ix, e) ==
    LET start_ == IF IsInt(e[1]) THEN g3_id_to_coord(ix, e[1]) ELSE e[1]
        end_   == IF IsInt(e[2]) THEN g3_id_to_coord(ix, e[2]) ELSE e[2]
    IN  IF ~g3_is_vertex(md, ix, start_) THEN FALSE
        ELSE InSeq(md[start_][1], end_)

\* an endpoint as id_to_coord resolves it in the present state
ResolvedNow(a) == IF IsInt(a) THEN g3_id_to_coord(id_index, a) ELSE a

\* C23: in every reachable graph state, for endpoints a and b given as
\* coordinates, identifiers or one of each, is_edge((a, b)) is true exactly
\* when edges() lists the pair of their resolved coordinates, and it is false
\* when an endpoint is no vertex.
C23_IsEdgeIffListed ==
    \E listed \in {g3_edges(map_data)} :
        \A a \in EndArgs, b \in EndArgs :
            /\ g3_is_edge(map_data, id_index, <<a, b>>)
                   <=> InSeq(listed, <<ResolvedNow(a), ResolvedNow(b)>>)
            /\ (~g3_is_vertex(map_data, id_index, a)
                    \/ ~g3_is_vertex(map_data, id_index, b))
                   => ~g3_is_edge(map_data, id_index, <<a, b>>)
\* C23 witness: an edge asked for by identifier and coordinate is there, its
\* reverse is not, and an identifier names no vertex.
C23_Witness ==
    /\ \E i \in Ids, c \in Coord :
          /\ g3_is_edge(map_data, id_index, <<i, c>>)
          /\ ~g3_is_edge(map_data, id_index, <<c, i>>)
          /\ ResolvedNow(i) # c
    /\ \E i \in Ids : ~g3_is_vertex(map_data, id_index, i)

\* C24: add_vertex and add_id return without raising in every graph state the
\* calls can reach; line 173 always finds the old identifier in _id_index.
C24_AddVertexNeverRaises ==
    op.name \in {"add_vertex", "add_id"} => raised = ""

\* s is a leading part of t
IsPrefix(s, t) == Len(s) <= Len(t) /\ SubSeq(t, 1, Len(s)) = s

\* C25: no call removes a vertex or shortens a neighbour list; add_vertex and
\* add_id, returning or raising, leave the neighbour list of every vertex as
\* it was, that of the coordinate added again and that of the coordinate an
\* identifier is taken from included, and a new vertex starts with none.
C25_ListsOnlyGrow ==
    /\ DOMAIN prev_map_data \subseteq DOMAIN map_data
    /\ \A c \in DOMAIN prev_map_data :
         IsPrefix(prev_map_data[c][1], map_data[c][1])
    /\ op.name \in {"add_vertex", "add_id"} =>
         /\ \A c \in DOMAIN prev_map_data :
              map_data[c][1] = prev_map_data[c][1]
         /\ \A c \in DOMAIN map_data \ DOMAIN prev_map_data :
              map_data[c][1] = <<>>
\* C25 witness: a coordinate with neighbours was added again with an
\* identifier that another coordinate with neighbours held and lost.
C25_Witness ==
    /\ op.name = "add_vertex" /\ Len(op.v) = 3
    /\ \E c \in {<<op.v[1], op.v[2]>>} :
         /\ c \in DOMAIN prev_map_data
         /\ prev_map_data[c][1] # <<>>
         /\ op.v[3] \in DOMAIN prev_id_index
         /\ \E d \in {prev_id_index[op.v[3]]} :
              /\ d # c
              /\ prev_map_data[d][1] # <<>>
              /\ Len(prev_map_data[d]) = 2
              /\ Len(map_data[d]) = 1

\* lines 380-395
g3_is_walk(md, ix, walk) ==
    IF \E j \in 1..Len(walk) : ~g3_is_vertex(md, ix, walk[j]) THEN FALSE
    ELSE IF Len(walk) = 0 THEN FALSE
    ELSE \A node \in 1..(Len(walk) - 1) :
            g3_is_edge(md, ix, <<walk[node], walk[node + 1]>>)

\* line 411; set(path) holds an int and a tuple as different elements
g3_is_path(md, ix, path) ==
    /\ g3_is_walk(md, ix, path)
    /\ Len(path) = Cardinality({path[j] : j \in 1..Len(path)})

\* the lists is_walk and is_path are asked about: coordinates, identifiers
\* or both
Walks == UNION {[1..n -> EndArgs] : n \in 0..MaxWalk}

\* w is non-empty, its elements are vertices, its consecutive pairs are edges
WalkOfGraph(w) ==
    /\ w # <<>>
    /\ \A j \in 1..Len(w) : ResolvedNow(w[j]) \in DOMAIN map_data
    /\ \A j \in 1..(Len(w) - 1) :
         InSeq(map_data[ResolvedNow(w[j])][1], ResolvedNow(w[j + 1]))

\* C26: for every list w of coordinates, identifiers or both, is_walk(g, w)
\* is true exactly when w is non-empty, each element is a vertex of g and
\* each consecutive pair is an edge of g, and is_path(g, w) is true exactly
\* when w is such a walk in which no vertex of g occurs more than once.
C26_WalkAndPath ==
    \A w \in Walks :
        /\ g3_is_walk(map_data, id_index, w) <=> WalkOfGraph(w)
        /\ g3_is_path(map_data, id_index, w) <=>
              /\ WalkOfGraph(w)
              /\ \A j, k \in 1..Len(w) :
                    j # k => ResolvedNow(w[j]) # ResolvedNow(w[k])

====
